---- MODULE Spec2Model ----
(***************************************************************************)
(* Vital-sign simulation and status classification of the realtime         *)
(* dashboard: the value generator (vital-generation.ts), the classifier    *)
(* (vital-thresholds.ts) and the zustand store with its setInterval driver *)
(* (vitals-store.ts).                                                      *)
(*                                                                         *)
(* Numbers.  A vital value is a JavaScript number; here it is an integer   *)
(* count of 1/Scale units (hundredths), so 36.8 is 3680 and 59.99 is 5999. *)
(* A generator result is computed exactly as a fraction and rounded once   *)
(* to the nearest hundredth.  Math.random() is an input: every call site   *)
(* takes its draw as a parameter, chosen by the caller from a bounded set. *)
(* Date.now() is the variable now, in milliseconds since the page loaded.  *)
(***************************************************************************)
EXTENDS Integers, Sequences, FiniteSets, TLC

VARIABLES
    patientVitals,       \* Map<string, VitalSigns>
    isSimulating,        \* boolean
    simulationInterval,  \* number | null
    intervals,           \* the browser's live setInterval timers
    nextHandle,          \* the handle the next setInterval call returns
    now,                 \* Date.now()
    running,             \* the interval callback in progress, or NoTick
    call                 \* the pure function applied last, with its arguments

vars == <<patientVitals, isSimulating, simulationInterval, intervals,
          nextHandle, now, running, call>>

storeVars == <<patientVitals, isSimulating, simulationInterval, intervals,
               nextHandle, now, running>>

(***************************************************************************)
(* Bounds of the model.                                                    *)
(***************************************************************************)
\* Math.random() * 2 - 1 is drawn from the grid k / UDen, k in -UDen .. UDen-1.
UDen == 2
\* The Box-Muller deviate z0 is drawn from the integers -ZMax .. ZMax.
ZMax == 4
\* The clock advances MaxClockSteps times, TimeStep milliseconds each.
MaxClockSteps == 4
\* setInterval is called at most MaxHandles times.
MaxHandles == 2
\* generateVitalUpdate's current value is drawn from GridSteps + 1 points of
\* [min, max] (and from points outside it).
GridSteps == 8
\* generateVitalHistory is asked for 0 .. MaxCount samples (and for 10).
MaxCount == 2
\* A run of ticks for one patient has at most MaxTicks ticks.
MaxTicks == 4

(***************************************************************************)
(* Types and tables.                                                       *)
(***************************************************************************)
\* 1.00 in the unit values are counted in.
Scale == 100

Tenth == Scale \div 10

VitalTypes == {"heartRate", "systolic", "diastolic", "spo2", "temperature"}

\* The order updateVitals and calculatePatientStatus walk the vital types in.
vitalTypes == <<"heartRate", "systolic", "diastolic", "spo2", "temperature">>

Trends == {"normal", "warning", "critical"}

Statuses == {"stable", "warning", "critical"}

VITAL_RANGES ==
    [heartRate   |-> [mean |-> 75 * Scale,  stdDev |-> 8 * Scale,
                      min  |-> 45 * Scale,  max    |-> 150 * Scale],
     systolic    |-> [mean |-> 120 * Scale, stdDev |-> 10 * Scale,
                      min  |-> 80 * Scale,  max    |-> 180 * Scale],
     diastolic   |-> [mean |-> 80 * Scale,  stdDev |-> 8 * Scale,
                      min  |-> 50 * Scale,  max    |-> 110 * Scale],
     spo2        |-> [mean |-> 98 * Scale,  stdDev |-> 15 * Tenth,
                      min  |-> 85 * Scale,  max    |-> 100 * Scale],
     temperature |-> [mean |-> 368 * Tenth, stdDev |-> 3 * Tenth,
                      min  |-> 350 * Tenth, max    |-> 400 * Tenth]]

THRESHOLDS ==
    [heartRate   |-> [normal   |-> <<60 * Scale, 100 * Scale>>,
                      warning  |-> <<50 * Scale, 120 * Scale>>,
                      critical |-> <<0, 200 * Scale>>],
     systolic    |-> [normal   |-> <<90 * Scale, 140 * Scale>>,
                      warning  |-> <<80 * Scale, 160 * Scale>>,
                      critical |-> <<0, 300 * Scale>>],
     diastolic   |-> [normal   |-> <<60 * Scale, 90 * Scale>>,
                      warning  |-> <<50 * Scale, 100 * Scale>>,
                      critical |-> <<0, 200 * Scale>>],
     spo2        |-> [normal   |-> <<95 * Scale, 100 * Scale>>,
                      warning  |-> <<90 * Scale, 95 * Scale>>,
                      critical |-> <<0, 90 * Scale>>],
     temperature |-> [normal   |-> <<360 * Tenth, 375 * Tenth>>,
                      warning  |-> <<355 * Tenth, 385 * Tenth>>,
                      critical |-> <<0, 50 * Scale>>]]

MAX_HISTORY_POINTS == 10

SIMULATION_INTERVAL == 2500

\* initializeAllVitals asks for 10 samples, 30000 ms apart.
HistoryCount == 10

HistoryIntervalMs == 30000

(***************************************************************************)
(* Arithmetic.                                                             *)
(***************************************************************************)
Min2(a, b) == IF a <= b THEN a ELSE b

Max2(a, b) == IF a >= b THEN a ELSE b

\* n / d rounded to the nearest integer (d > 0 and even, as every
\* denominator here is: a multiple of 100).
RoundDiv(n, d) == (n + d \div 2) \div d

\* clamp without its upper cut.
clampLowerOnly(value, min, max) == Max2(min, value)

clamp(value, min, max) == Max2(min, Min2(max, value))

(***************************************************************************)
(* vital-generation.ts                                                     *)
(***************************************************************************)
\* A draw for generateBaselineValue: up is Math.random() > 0.5, z the
\* standard normal deviate z0 of gaussianRandom.
BaselineDraws == [up : BOOLEAN, z : -ZMax .. ZMax]

\* A draw for generateVitalUpdate: k / UDen is Math.random() * 2 - 1, worsen
\* is Math.random() < 0.05 (warning) or < 0.08 (critical), up is
\* Math.random() > 0.5.
UpdateDraws == [k : -UDen .. (UDen - 1), worsen : BOOLEAN, up : BOOLEAN]

\* The sampling mean in percent of range.mean, and the stdDev in tenths of
\* range.stdDev.
BaselineMeanPct(trend, up) ==
    CASE trend = "normal"   -> 100
      [] trend = "warning"  -> IF up THEN 115 ELSE 90
      [] trend = "critical" -> IF up THEN 130 ELSE 80

\* The stdDev factor with the widening of the warning and critical regimes
\* left out.
BaselineStdDevTenthsFlat(trend) == 10

BaselineStdDevTenths(trend) ==
    CASE trend = "normal"   -> 10
      [] trend = "warning"  -> 12
      [] trend = "critical" -> 15

\* z0 * stdDev + mean, with mean = range.mean * pct / 100 and
\* stdDev = range.stdDev * sd / 10, rounded to the grid.
gaussianRandom(meanPct, mean, sdTenths, stdDev, z) ==
    RoundDiv(z * stdDev * sdTenths * 10 + mean * meanPct, 100)

generateBaselineValue(vitalType, trend, d) ==
    LET range == VITAL_RANGES[vitalType]
        value == gaussianRandom(BaselineMeanPct(trend, d.up), range.mean,
                                BaselineStdDevTenths(trend), range.stdDev, d.z)
    IN  clamp(value, range.min, range.max)

\* The drift target times 100: range.mean, or the off-nominal target.
DriftTarget100(vitalType, trendBias, d) ==
    LET range == VITAL_RANGES[vitalType]
    IN  CASE trendBias = "normal" -> range.mean * 100
          [] trendBias = "warning" ->
                IF d.worsen
                THEN (IF d.up THEN range.mean * 112 ELSE range.mean * 92)
                ELSE range.mean * 100
          [] trendBias = "critical" ->
                IF d.worsen
                THEN (IF d.up THEN range.max * 85 ELSE range.min * 115)
                ELSE range.mean * 100

\* driftStrength (0.08) with every branch's multiplier left out.
DriftRate1000Flat(trendBias, d) == 80

\* driftStrength (0.08) times the branch's multiplier, in thousandths.
DriftRate1000(trendBias, d) ==
    CASE trendBias = "normal" -> 120
      [] trendBias = "warning" -> IF d.worsen THEN 80 ELSE 64
      [] trendBias = "critical" -> IF d.worsen THEN 120 ELSE 40

\* generateVitalUpdate with the drift left out of nextValue.
generateVitalUpdateNoDrift(currentValue, vitalType, trendBias, d) ==
    LET range == VITAL_RANGES[vitalType]
        variationNum == currentValue * 15 * d.k * 100
        nextValue == currentValue + RoundDiv(variationNum, 100000 * UDen)
    IN  clamp(nextValue, range.min, range.max)

\* variation = currentValue * 0.015 * (k / UDen)
\* drift     = (target - currentValue) * rate
\* Both over the common denominator 100000 * UDen, rounded once.
generateVitalUpdate(currentValue, vitalType, trendBias, d) ==
    LET range == VITAL_RANGES[vitalType]
        variationNum == currentValue * 15 * d.k * 100
        driftNum == (DriftTarget100(vitalType, trendBias, d)
                        - currentValue * 100)
                    * DriftRate1000(trendBias, d) * UDen
        nextValue == currentValue
                     + RoundDiv(variationNum + driftNum, 100000 * UDen)
    IN  clamp(nextValue, range.min, range.max)

(***************************************************************************)
(* vital-thresholds.ts                                                     *)
(***************************************************************************)
\* getVitalStatus with the normal band's lower bound excluded.
getVitalStatusStrict(value, vitalType) ==
    LET threshold == THRESHOLDS[vitalType]
    IN  IF value > threshold.normal[1] /\ value <= threshold.normal[2]
        THEN "stable"
        ELSE IF value >= threshold.warning[1] /\ value <= threshold.warning[2]
             THEN "warning"
             ELSE "critical"

\* getVitalStatus testing the warning band before the normal band.
getVitalStatusWarningFirst(value, vitalType) ==
    LET threshold == THRESHOLDS[vitalType]
    IN  IF value >= threshold.warning[1] /\ value <= threshold.warning[2]
        THEN "warning"
        ELSE IF value >= threshold.normal[1] /\ value <= threshold.normal[2]
             THEN "stable"
             ELSE "critical"

getVitalStatus(value, vitalType) ==
    LET threshold == THRESHOLDS[vitalType]
    IN  IF value >= threshold.normal[1] /\ value <= threshold.normal[2]
        THEN "stable"
        ELSE IF value >= threshold.warning[1] /\ value <= threshold.warning[2]
             THEN "warning"
             ELSE "critical"

\* getCurrentValue: <<value>> of the last sample, or <<>> for null.
\* getCurrentValue reading the oldest sample instead of the latest.
getCurrentValueOldest(signs) ==
    IF Len(signs) = 0 THEN <<>> ELSE <<signs[1].value>>

getCurrentValue(signs) ==
    IF Len(signs) = 0 THEN <<>> ELSE <<signs[Len(signs)].value>>

calculatePatientStatus(vitals) ==
    LET values == [v \in VitalTypes |-> getCurrentValue(vitals[v])]
        hasAnyData == \E v \in VitalTypes : values[v] # <<>>
        statuses == {getVitalStatus(values[v][1], v) :
                        v \in {w \in VitalTypes : values[w] # <<>>}}
    IN  IF ~hasAnyData THEN "stable"
        ELSE IF "critical" \in statuses THEN "critical"
        ELSE IF "warning" \in statuses THEN "warning"
        ELSE "stable"

(***************************************************************************)
(* History generation (vital-generation.ts).                               *)
(***************************************************************************)
\* A draw for one generateVitalHistory call: b for the baseline, u[i] for
\* the i-th generateVitalUpdate.
RECURSIVE HistoryLoop(_, _, _, _, _, _, _, _, _)
\* The for loop of generateVitalHistory from index i on.
HistoryLoop(history, currentValue, i, vitalType, count, intervalMs, trend, t, d) ==
    IF i >= count THEN history
    ELSE LET timestamp == t - (count - i - 1) * intervalMs
             pushed == Append(history, [timestamp |-> timestamp,
                                        value |-> currentValue])
             nextValue == IF i < count - 1
                          THEN generateVitalUpdate(currentValue, vitalType,
                                                   trend, d.u[i + 1])
                          ELSE currentValue
         IN  HistoryLoop(pushed, nextValue, i + 1, vitalType, count,
                         intervalMs, trend, t, d)

\* generateVitalHistory with every timestamp one interval early
\* (now - (count - i) * intervalMs).
generateVitalHistoryEarly(vitalType, count, intervalMs, trend, t, d) ==
    HistoryLoop(<<>>, generateBaselineValue(vitalType, trend, d.b), 0,
                vitalType, count, intervalMs, trend, t - intervalMs, d)

\* t is the value of Date.now() the call reads.
generateVitalHistory(vitalType, count, intervalMs, trend, t, d) ==
    HistoryLoop(<<>>, generateBaselineValue(vitalType, trend, d.b), 0,
                vitalType, count, intervalMs, trend, t, d)

\* The clock's grid: half an interval period per step.
TimeStep == SIMULATION_INTERVAL \div 2

MaxTime == MaxClockSteps * TimeStep

Clock == {n * TimeStep : n \in 0 .. MaxClockSteps}

\* The draws the store's handlers are given here: every Math.random() call
\* of a handler draws alike (the generator's own draws are explored under
\* SpecFn).
LowUpdate == [k |-> -UDen, worsen |-> FALSE, up |-> FALSE]

LowHistory ==
    [b |-> [up |-> FALSE, z |-> -1],
     u |-> [i \in 1 .. (HistoryCount - 1) |-> LowUpdate]]

StoreUpdateDraws == {[v \in VitalTypes |-> LowUpdate]}

StoreHistoryDraws == {[v \in VitalTypes |-> LowHistory]}

\* generateVitalHistory's result for every call initializeAllVitals can make
\* here (TLC computes the table once instead of at every step).
HistoryTable ==
    [v \in VitalTypes |-> [trend \in Trends |-> [t \in Clock |->
        [d \in {LowHistory} |->
            generateVitalHistory(v, HistoryCount, HistoryIntervalMs,
                                 trend, t, d)]]]]

\* initializeAllVitals with the oldest sample of every history missing.
initializeAllVitalsNine(patientTrend, t, d) ==
    [v \in VitalTypes |-> Tail(HistoryTable[v][patientTrend][t][d[v]])]

initializeAllVitals(patientTrend, t, d) ==
    [v \in VitalTypes |-> HistoryTable[v][patientTrend][t][d[v]]]

(***************************************************************************)
(* vitals-store.ts                                                         *)
(***************************************************************************)
Patients == {"p1", "p2"}

\* simulationInterval: null.  setInterval returns positive handles.
Null == 0

\* new Map()
EmptyMap == [q \in {} |-> <<>>]

\* new Map(m).set(key, value)
MapSet(m, key, value) ==
    [q \in DOMAIN m \cup {key} |-> IF q = key THEN value ELSE m[q]]

\* createEmptyVitals (the hooks' stand-in for a patient with no bundle)
createEmptyVitals == [v \in VitalTypes |-> <<>>]

\* initializeVitals storing a bundle of empty series instead of histories.
initializeVitalsEmpty(pv, patientId, initialTrend, t, d) ==
    MapSet(pv, patientId, createEmptyVitals)

\* initializeVitals calling initializeAllVitals() without the trend, which
\* then defaults to 'normal'.
initializeVitalsDefaultTrend(pv, patientId, initialTrend, t, d) ==
    MapSet(pv, patientId, initializeAllVitals("normal", t, d))

\* The set() of initializeVitals: the map it publishes.
initializeVitals(pv, patientId, initialTrend, t, d) ==
    MapSet(pv, patientId, initializeAllVitals(initialTrend, t, d))

\* updatedSigns without the trim to MAX_HISTORY_POINTS.
updatedSignsUntrimmed(currentSigns, vitalType, trendBias, t, d) ==
    LET lastValue == IF Len(currentSigns) = 0 THEN 0
                     ELSE currentSigns[Len(currentSigns)].value
        newValue == generateVitalUpdate(lastValue, vitalType, trendBias, d)
    IN  Append(currentSigns, [timestamp |-> t, value |-> newValue])

\* updatedSigns trimming with pop() instead of shift(): the newest sample
\* is dropped, not the oldest.
updatedSignsPop(currentSigns, vitalType, trendBias, t, d) ==
    LET lastValue == IF Len(currentSigns) = 0 THEN 0
                     ELSE currentSigns[Len(currentSigns)].value
        newValue == generateVitalUpdate(lastValue, vitalType, trendBias, d)
        appended == Append(currentSigns, [timestamp |-> t, value |-> newValue])
    IN  IF Len(appended) > MAX_HISTORY_POINTS
        THEN SubSeq(appended, 1, MAX_HISTORY_POINTS)
        ELSE appended

\* One pass of updateVitals' forEach: the new series of one vital type.
updatedSigns(currentSigns, vitalType, trendBias, t, d) ==
    LET lastValue == IF Len(currentSigns) = 0 THEN 0
                     ELSE currentSigns[Len(currentSigns)].value
        newValue == generateVitalUpdate(lastValue, vitalType, trendBias, d)
        newSign == [timestamp |-> t, value |-> newValue]
        appended == Append(currentSigns, newSign)
    IN  IF Len(appended) > MAX_HISTORY_POINTS THEN Tail(appended)
        ELSE appended

\* updatedVitals with only the first vital type advanced: what a reader is
\* given if the bundle is published after the forEach's first pass.
updatedVitalsFirstOnly(currentVitals, t, d) ==
    LET currentStatus == calculatePatientStatus(currentVitals)
        trendBias == IF currentStatus = "stable" THEN "normal"
                     ELSE currentStatus
    IN  [v \in VitalTypes |->
            IF v = vitalTypes[1]
            THEN updatedSigns(currentVitals[v], v, trendBias, t, d[v])
            ELSE currentVitals[v]]

RECURSIVE RecomputingLoop(_, _, _, _)
\* The forEach from its i-th vital type on, with trendBias computed inside
\* the loop from the bundle as updated so far.
RecomputingLoop(vitals, i, t, d) ==
    IF i > Len(vitalTypes) THEN vitals
    ELSE LET v == vitalTypes[i]
             currentStatus == calculatePatientStatus(vitals)
             trendBias == IF currentStatus = "stable" THEN "normal"
                          ELSE currentStatus
         IN  RecomputingLoop(
                [vitals EXCEPT
                    ![v] = updatedSigns(vitals[v], v, trendBias, t, d[v])],
                i + 1, t, d)

\* updatedVitals with trendBias recomputed for each vital type.
updatedVitalsRecomputing(currentVitals, t, d) ==
    RecomputingLoop(currentVitals, 1, t, d)

\* The bundle updateVitals builds before it publishes: every vital type
\* advanced from currentVitals with the one trendBias.
updatedVitals(currentVitals, t, d) ==
    LET currentStatus == calculatePatientStatus(currentVitals)
        trendBias == IF currentStatus = "stable" THEN "normal"
                     ELSE currentStatus
    IN  [v \in VitalTypes |->
            updatedSigns(currentVitals[v], v, trendBias, t, d[v])]

\* updateVitals creating an empty bundle for a patient that has none,
\* instead of returning the state.
updateVitalsCreates(pv, patientId, t, d) ==
    IF patientId \notin DOMAIN pv THEN MapSet(pv, patientId, createEmptyVitals)
    ELSE MapSet(pv, patientId, updatedVitals(pv[patientId], t, d))

\* updateVitals giving a patient that has no bundle a fresh normal history,
\* as startSimulation does, instead of returning the state.
updateVitalsInitializes(pv, patientId, t, d) ==
    IF patientId \notin DOMAIN pv
    THEN initializeVitals(pv, patientId, "normal", t,
                          CHOOSE h \in StoreHistoryDraws : TRUE)
    ELSE MapSet(pv, patientId, updatedVitals(pv[patientId], t, d))

\* The set() of updateVitals: the map it publishes (the state itself when
\* the patient has no bundle).
updateVitals(pv, patientId, t, d) ==
    IF patientId \notin DOMAIN pv THEN pv
    ELSE MapSet(pv, patientId, updatedVitals(pv[patientId], t, d))

\* getPatientVitals: <<bundle>>, or <<>> for undefined.
getPatientVitals(pv, patientId) ==
    IF patientId \in DOMAIN pv THEN <<pv[patientId]>> ELSE <<>>

\* clearInterval(h)
clearInterval(iv, h) == [i \in DOMAIN iv \ {h} |-> iv[i]]

RECURSIVE InitEvery(_, _, _, _)
\* InitMissing without its test for an existing bundle.
InitEvery(pv, patientIds, t, d) ==
    IF patientIds = <<>> THEN pv
    ELSE InitEvery(initializeVitals(pv, Head(patientIds), "normal", t,
                                    d[Head(patientIds)]),
                   Tail(patientIds), t, d)

RECURSIVE InitMissing(_, _, _, _)
\* startSimulation's first forEach over patientIds.
InitMissing(pv, patientIds, t, d) ==
    IF patientIds = <<>> THEN pv
    ELSE LET patientId == Head(patientIds)
             next == IF patientId \in DOMAIN pv THEN pv
                     ELSE initializeVitals(pv, patientId, "normal", t,
                                           d[patientId])
         IN  InitMissing(next, Tail(patientIds), t, d)

(***************************************************************************)
(* The store as a state machine.  JavaScript runs each handler to its end, *)
(* so initializeVitals, startSimulation, stopSimulation and clearVitals    *)
(* are one step each.  An interval callback publishes once per roster      *)
(* patient (one set() per updateVitals call), and a subscriber of the      *)
(* store runs inside each set(): the callback is a step per patient, and   *)
(* every state of the model is a state a reader can be given.              *)
(***************************************************************************)
\* patientIds arrays: the ids of a patient list, each once.
Rosters ==
    {<<>>} \cup {<<p>> : p \in Patients}
           \cup {<<p, q>> : <<p, q>> \in {x \in Patients \X Patients :
                                                x[1] # x[2]}}

NoTick == <<>>

\* The earliest time a live interval fires next, or MaxTime.
RECURSIVE NextDue(_, _)
NextDue(iv, hs) ==
    IF hs = {} THEN MaxTime
    ELSE LET h == CHOOSE x \in hs : TRUE
         IN  Min2(iv[h].due, NextDue(iv, hs \ {h}))

Init ==
    /\ patientVitals = EmptyMap
    /\ isSimulating = FALSE
    /\ simulationInterval = Null
    /\ intervals = EmptyMap
    /\ nextHandle = 1
    /\ now = 0
    /\ running = NoTick
    /\ call = [op |-> "none"]

InitializeVitals(patientId, initialTrend, d) ==
    /\ running = NoTick
    /\ patientVitals' =
          initializeVitals(patientVitals, patientId, initialTrend, now, d)
    /\ UNCHANGED <<isSimulating, simulationInterval, intervals, nextHandle,
                   now, running, call>>

\* stopSimulation's clearInterval branch without the clearInterval.
StopClearNothing(iv, handle) == iv

\* The intervals left live by stopSimulation.
StopClear(iv, handle) ==
    IF handle # Null THEN clearInterval(iv, handle) ELSE iv

\* stopSimulation flipping the running flag instead of clearing it.
StopSimulationToggle ==
    /\ running = NoTick
    /\ intervals' = StopClear(intervals, simulationInterval)
    /\ simulationInterval' = Null
    /\ isSimulating' = ~isSimulating
    /\ UNCHANGED <<patientVitals, nextHandle, now, running, call>>

\* stopSimulation clearing the interval and the flag but leaving the handle
\* in simulationInterval.
StopSimulationKeepsHandle ==
    /\ running = NoTick
    /\ intervals' = StopClear(intervals, simulationInterval)
    /\ isSimulating' = FALSE
    /\ UNCHANGED <<patientVitals, simulationInterval, nextHandle, now,
                   running, call>>

StopSimulation ==
    /\ running = NoTick
    /\ intervals' = StopClear(intervals, simulationInterval)
    /\ simulationInterval' = Null
    /\ isSimulating' = FALSE
    /\ UNCHANGED <<patientVitals, nextHandle, now, running, call>>

\* StopExisting without the stop.
StopExistingNever(iv, handle) == iv

\* The intervals left live by startSimulation's stop-first branch.
StopExisting(iv, handle) ==
    IF handle # Null THEN StopClear(iv, handle) ELSE iv

StartSimulation(patientIds, d) ==
    /\ running = NoTick
    /\ nextHandle <= MaxHandles
    /\ patientVitals' = InitMissing(patientVitals, patientIds, now, d)
    /\ intervals' =
          MapSet(StopExisting(intervals, simulationInterval), nextHandle,
                 [roster |-> patientIds, due |-> now + SIMULATION_INTERVAL])
    /\ nextHandle' = nextHandle + 1
    /\ simulationInterval' = nextHandle
    /\ isSimulating' = TRUE
    /\ UNCHANGED <<now, running, call>>

\* clearVitals stopping the simulation as well.
ClearVitalsAndStop ==
    /\ running = NoTick
    /\ patientVitals' = EmptyMap
    /\ intervals' = StopClear(intervals, simulationInterval)
    /\ simulationInterval' = Null
    /\ isSimulating' = FALSE
    /\ UNCHANGED <<nextHandle, now, running, call>>

ClearVitals ==
    /\ running = NoTick
    /\ patientVitals' = EmptyMap
    /\ UNCHANGED <<isSimulating, simulationInterval, intervals, nextHandle,
                   now, running, call>>

\* The callback registered with setTimeout instead of setInterval: it fires
\* once and is not scheduled again.
TickOneShot(h) ==
    /\ running = NoTick
    /\ h \in DOMAIN intervals
    /\ intervals[h].due = now
    /\ intervals' = [intervals EXCEPT ![h].due = MaxTime + SIMULATION_INTERVAL]
    /\ running' = IF intervals[h].roster = <<>> THEN NoTick ELSE <<h, 1>>
    /\ UNCHANGED <<patientVitals, isSimulating, simulationInterval,
                   nextHandle, now, call>>

\* A live interval comes due: its callback starts (and ends at once on an
\* empty roster), and the browser schedules its next run.
Tick(h) ==
    /\ running = NoTick
    /\ h \in DOMAIN intervals
    /\ intervals[h].due = now
    /\ intervals' = [intervals EXCEPT ![h].due = now + SIMULATION_INTERVAL]
    /\ running' = IF intervals[h].roster = <<>> THEN NoTick ELSE <<h, 1>>
    /\ UNCHANGED <<patientVitals, isSimulating, simulationInterval,
                   nextHandle, now, call>>

\* The callback's forEach walking the roster from its last id to its first.
UpdateStepReversed(d) ==
    /\ running # NoTick
    /\ LET roster == intervals[running[1]].roster
           idx == running[2]
       IN  /\ patientVitals' =
                 updateVitals(patientVitals, roster[Len(roster) - idx + 1],
                              now, d)
           /\ running' = IF idx = Len(roster) THEN NoTick
                         ELSE <<running[1], idx + 1>>
    /\ UNCHANGED <<isSimulating, simulationInterval, intervals, nextHandle,
                   now, call>>

\* The callback advancing every bundle in the store on its first pass,
\* instead of the ids startSimulation was given.
UpdateStepEveryBundle(d) ==
    /\ running # NoTick
    /\ LET roster == intervals[running[1]].roster
           idx == running[2]
       IN  /\ patientVitals' =
                 IF idx = 1
                 THEN [q \in DOMAIN patientVitals |->
                          updatedVitals(patientVitals[q], now, d)]
                 ELSE patientVitals
           /\ running' = IF idx = Len(roster) THEN NoTick
                         ELSE <<running[1], idx + 1>>
    /\ UNCHANGED <<isSimulating, simulationInterval, intervals, nextHandle,
                   now, call>>

\* One pass of the callback's forEach: get().updateVitals(patientId).
UpdateStep(d) ==
    /\ running # NoTick
    /\ LET roster == intervals[running[1]].roster
           idx == running[2]
       IN  /\ patientVitals' = updateVitals(patientVitals, roster[idx], now, d)
           /\ running' = IF idx = Len(roster) THEN NoTick
                         ELSE <<running[1], idx + 1>>
    /\ UNCHANGED <<isSimulating, simulationInterval, intervals, nextHandle,
                   now, call>>

\* The clock advances between handlers, never past an interval that is due.
TimePasses(delta) ==
    /\ running = NoTick
    /\ \A h \in DOMAIN intervals : intervals[h].due > now
    /\ now + delta <= MaxTime
    /\ now' = Min2(now + delta, NextDue(intervals, DOMAIN intervals))
    /\ UNCHANGED <<patientVitals, isSimulating, simulationInterval,
                   intervals, nextHandle, running, call>>

Next ==
    \/ \E p \in Patients, t \in Trends, d \in StoreHistoryDraws :
          InitializeVitals(p, t, d)
    \/ \E r \in Rosters, d \in [Patients -> StoreHistoryDraws] :
          StartSimulation(r, d)
    \/ StopSimulation
    \/ ClearVitals
    \/ \E h \in DOMAIN intervals : Tick(h)
    \/ \E d \in StoreUpdateDraws : UpdateStep(d)
    \/ TimePasses(TimeStep)

Spec == Init /\ [][Next]_vars

(***************************************************************************)
(* The pure functions, applied to inputs from bounded sets.  call records  *)
(* the function applied, its arguments and its result.                     *)
(***************************************************************************)
\* The current values generateVitalUpdate is given: a grid over [min, max],
\* and values outside it (0 is what updateVitals passes for an empty series).
UpdateInputs(v) ==
    LET range == VITAL_RANGES[v]
    IN  {0, -range.mean, range.min - 1, range.max + 1, 2 * range.max}
        \cup {range.min + (j * (range.max - range.min)) \div GridSteps :
                 j \in 0 .. GridSteps}

\* The values getVitalStatus is given: every band edge, the values one
\* hundredth below and above it, and values outside every band.
StatusInputs(v) ==
    LET threshold == THRESHOLDS[v]
        edges == {threshold.normal[1], threshold.normal[2],
                  threshold.warning[1], threshold.warning[2]}
    IN  UNION {{e - 1, e, e + 1} : e \in edges}
        \cup {-1, 0, threshold.critical[2] + 1}

\* The series calculatePatientStatus is given for one vital type: empty, or
\* one or two samples at the lower edge of the normal band (s), at the lower
\* edge of the warning band (w) or one hundredth below it (c).
SeriesInputs(v) ==
    LET threshold == THRESHOLDS[v]
        s == [timestamp |-> 0, value |-> threshold.normal[1]]
        w == [timestamp |-> 0, value |-> threshold.warning[1]]
        c == [timestamp |-> 0, value |-> threshold.warning[1] - 1]
    IN  {<<>>, <<s>>, <<w>>, <<c>>, <<c, s>>, <<s, c>>}

BundleInputs ==
    [heartRate   : SeriesInputs("heartRate"),
     systolic    : SeriesInputs("systolic"),
     diastolic   : SeriesInputs("diastolic"),
     spo2        : SeriesInputs("spo2"),
     temperature : SeriesInputs("temperature")]

NoCall == [op |-> "none"]

InitFn ==
    /\ patientVitals = EmptyMap
    /\ isSimulating = FALSE
    /\ simulationInterval = Null
    /\ intervals = EmptyMap
    /\ nextHandle = 1
    /\ now = 0
    /\ running = NoTick
    /\ call = NoCall

CallBaseline(v, trend, d) ==
    /\ call = NoCall
    /\ call' = [op |-> "generateBaselineValue", vitalType |-> v,
                trend |-> trend, draw |-> d,
                result |-> generateBaselineValue(v, trend, d)]
    /\ UNCHANGED storeVars

CallUpdate(currentValue, v, trendBias, d) ==
    /\ call = NoCall
    /\ call' = [op |-> "generateVitalUpdate", currentValue |-> currentValue,
                vitalType |-> v, trend |-> trendBias, draw |-> d,
                result |-> generateVitalUpdate(currentValue, v, trendBias, d)]
    /\ UNCHANGED storeVars

CallGetVitalStatus(value, v) ==
    /\ call = NoCall
    /\ call' = [op |-> "getVitalStatus", value |-> value, vitalType |-> v,
                result |-> getVitalStatus(value, v)]
    /\ UNCHANGED storeVars

CallCalculatePatientStatus(vitals) ==
    /\ call = NoCall
    /\ call' = [op |-> "calculatePatientStatus", vitals |-> vitals,
                result |-> calculatePatientStatus(vitals)]
    /\ UNCHANGED storeVars

\* The draws one generateVitalHistory call is given: any baseline draw, and
\* any update draw, the same at each of its generateVitalUpdate calls.
HistoryDraws ==
    {[b |-> bd, u |-> [i \in 1 .. (HistoryCount - 1) |-> ud]] :
        bd \in BaselineDraws, ud \in UpdateDraws}

\* The counts generateVitalHistory is given: 0 .. MaxCount, and the 10 of
\* initializeAllVitals.
HistoryCounts == (0 .. MaxCount) \cup {HistoryCount}

\* The intervals it is given: one second, and the 30000 ms of
\* initializeAllVitals.
HistoryIntervals == {1000, HistoryIntervalMs}

CallHistory(v, count, intervalMs, trend, t, d) ==
    /\ call = NoCall
    /\ call' = [op |-> "generateVitalHistory", vitalType |-> v,
                count |-> count, intervalMs |-> intervalMs, trend |-> trend,
                t |-> t, draw |-> d,
                result |-> generateVitalHistory(v, count, intervalMs, trend,
                                                t, d)]
    /\ UNCHANGED storeVars

\* The series a tick is given for one vital type: those of SeriesInputs
\* with at most one sample, and one sample at the normal band's upper edge.
TickSeries(v) ==
    {signs \in SeriesInputs(v) : Len(signs) <= 1}
    \cup {<<[timestamp |-> 0, value |-> THRESHOLDS[v].normal[2]]>>}

\* The bundles a tick is given: series of 0 or 1 samples, and the full
\* histories of initializeAllVitals.
TickBundles ==
    [heartRate   : TickSeries("heartRate"),
     systolic    : TickSeries("systolic"),
     diastolic   : TickSeries("diastolic"),
     spo2        : TickSeries("spo2"),
     temperature : TickSeries("temperature")]
    \cup {initializeAllVitals(trend, 0, d) :
             trend \in Trends, d \in StoreHistoryDraws}

\* The draws a tick is given, alike for the five vital types:
\* Math.random() * 2 - 1 at its least, at -1 / UDen and at its greatest.
TickDraws ==
    {[v \in VitalTypes |-> [k |-> k, worsen |-> w, up |-> u]] :
        k \in {-UDen, -1, UDen - 1}, w \in BOOLEAN, u \in BOOLEAN}

\* The body of updateVitals' set() for a patient whose bundle is vitals.
CallUpdatedVitals(vitals, t, d) ==
    /\ call = NoCall
    /\ call' = [op |-> "updateVitals", vitals |-> vitals, t |-> t,
                draw |-> d, result |-> updatedVitals(vitals, t, d)]
    /\ UNCHANGED storeVars

\* Every call is made from the state no call has been made in.
NextFn ==
    \/ /\ call = NoCall
       /\ \E v \in VitalTypes, trend \in Trends, d \in BaselineDraws :
             CallBaseline(v, trend, d)
    \/ /\ call = NoCall
       /\ \E v \in VitalTypes, trend \in Trends, d \in UpdateDraws :
             \E currentValue \in UpdateInputs(v) :
                CallUpdate(currentValue, v, trend, d)
    \/ /\ call = NoCall
       /\ \E v \in VitalTypes : \E value \in StatusInputs(v) :
             CallGetVitalStatus(value, v)
    \/ /\ call = NoCall
       /\ \E vitals \in BundleInputs : CallCalculatePatientStatus(vitals)
    \/ /\ call = NoCall
       /\ \E v \in VitalTypes, count \in HistoryCounts, trend \in Trends :
             \E intervalMs \in HistoryIntervals, t \in {0, MaxTime} :
                \E d \in HistoryDraws :
                   CallHistory(v, count, intervalMs, trend, t, d)
    \/ /\ call = NoCall
       /\ \E vitals \in TickBundles, d \in TickDraws :
             CallUpdatedVitals(vitals, SIMULATION_INTERVAL, d)

SpecFn == InitFn /\ [][NextFn]_vars

(***************************************************************************)
(* The dashboard page (dashboard.tsx), the store's one client.  Its effect *)
(* has the dependency list [patients]: React runs it when the page mounts  *)
(* and whenever useNursePatients delivers a new patients value, the        *)
(* cleanup the run before returned first.  call records the patients value *)
(* of the last run that returned a cleanup (NoCall: none is registered).   *)
(***************************************************************************)
\* let trend = 'normal'; if (p.status === 'critical') ...
TrendOf(status) ==
    IF status = "critical" THEN "critical"
    ELSE IF status = "warning" THEN "warning"
    ELSE "normal"

RECURSIVE InitEach(_, _, _, _, _)
\* patients.forEach((p) => initializeVitals(p.id, trend))
InitEach(pv, patients, status, t, d) ==
    IF patients = <<>> THEN pv
    ELSE LET p == Head(patients)
         IN  InitEach(initializeVitals(pv, p, TrendOf(status[p]), t, d[p]),
                      Tail(patients), status, t, d)

\* The effect runs for a new patients value: the registered cleanup
\* (stopSimulation), then the effect's body.
DashboardEffect(patients, status, d) ==
    /\ running = NoTick
    /\ nextHandle <= MaxHandles
    /\ LET cleanup == call # NoCall
           stopped == IF cleanup
                      THEN StopClear(intervals, simulationInterval)
                      ELSE intervals
           handle == IF cleanup THEN Null ELSE simulationInterval
           currentlySimulating == IF cleanup THEN FALSE ELSE isSimulating
           starts == patients # <<>> /\ ~currentlySimulating
       IN  /\ patientVitals' =
                 IF starts
                 THEN InitMissing(InitEach(patientVitals, patients, status,
                                           now, d),
                                  patients, now, d)
                 ELSE patientVitals
           /\ intervals' =
                 IF starts
                 THEN MapSet(StopExisting(stopped, handle), nextHandle,
                             [roster |-> patients,
                              due |-> now + SIMULATION_INTERVAL])
                 ELSE stopped
           /\ nextHandle' = IF starts THEN nextHandle + 1 ELSE nextHandle
           /\ simulationInterval' = IF starts THEN nextHandle ELSE handle
           /\ isSimulating' = IF starts THEN TRUE ELSE currentlySimulating
           /\ call' = IF patients = <<>> THEN NoCall
                      ELSE [op |-> "dashboard", patients |-> patients]
    /\ UNCHANGED <<now, running>>

\* The page unmounts: the registered cleanup runs.
DashboardUnmount ==
    /\ running = NoTick
    /\ call # NoCall
    /\ intervals' = StopClear(intervals, simulationInterval)
    /\ simulationInterval' = Null
    /\ isSimulating' = FALSE
    /\ call' = NoCall
    /\ UNCHANGED <<patientVitals, nextHandle, now, running>>

NextDash ==
    \/ \E r \in Rosters, st \in [Patients -> Statuses] :
          \E d \in [Patients -> StoreHistoryDraws] :
             DashboardEffect(r, st, d)
    \/ DashboardUnmount
    \/ \E h \in DOMAIN intervals : Tick(h)
    \/ \E d \in StoreUpdateDraws : UpdateStep(d)
    \/ TimePasses(TimeStep)

SpecDash == InitFn /\ [][NextDash]_vars

(***************************************************************************)
(* A run for one patient: initializeVitals(patientId, trend), then ticks   *)
(* of a driver whose roster is that patient, one interval period apart.    *)
(* call records the patient, the trend and the number of ticks so far.     *)
(***************************************************************************)
\* The draws of one tick of a run: Math.random() * 2 - 1 at its least, at 0
\* or at its greatest, alike for the five vital types, never worsening.
RunUpdateDraws ==
    {[v \in VitalTypes |-> [k |-> k, worsen |-> FALSE, up |-> FALSE]] :
        k \in {-UDen, 0, UDen - 1}}

RunInitialize(patientId, initialTrend, d) ==
    /\ call = NoCall
    /\ patientVitals' =
          initializeVitals(patientVitals, patientId, initialTrend, now, d)
    /\ call' = [op |-> "run", patientId |-> patientId,
                trend |-> initialTrend, ticks |-> 0]
    /\ UNCHANGED <<isSimulating, simulationInterval, intervals, nextHandle,
                   now, running>>

\* The interval callback over the roster <<patientId>>, 2500 ms after the
\* step before.
RunTick(d) ==
    /\ call # NoCall
    /\ call.ticks < MaxTicks
    /\ now' = now + SIMULATION_INTERVAL
    /\ patientVitals' = updateVitals(patientVitals, call.patientId, now', d)
    /\ call' = [call EXCEPT !.ticks = call.ticks + 1]
    /\ UNCHANGED <<isSimulating, simulationInterval, intervals, nextHandle,
                   running>>

NextRun ==
    \/ \E p \in Patients, t \in Trends, d \in StoreHistoryDraws :
          RunInitialize(p, t, d)
    \/ \E d \in RunUpdateDraws : RunTick(d)

SpecRun == InitFn /\ [][NextRun]_vars

(***************************************************************************)
(* Claims about the pure functions (checked under SpecFn).                 *)
(***************************************************************************)
\* C1: for every vital type, regime, current value and random draw, the
\* result of generateBaselineValue and of generateVitalUpdate lies inside
\* that vital's [min, max] of VITAL_RANGES.
C1_ResultWithinBounds ==
    call.op \in {"generateBaselineValue", "generateVitalUpdate"} =>
        /\ call.result >= VITAL_RANGES[call.vitalType].min
        /\ call.result <= VITAL_RANGES[call.vitalType].max

\* C1 happens: an update from a current value above max, and a baseline
\* whose Gaussian sample falls outside the bounds, are cut to a bound.
C1_Witness ==
    /\ call.op = "generateVitalUpdate"
    /\ call.currentValue > VITAL_RANGES[call.vitalType].max
    /\ call.result = VITAL_RANGES[call.vitalType].max

\* The threshold table as the documentation gives it: [lo, hi] of the normal
\* and of the warning band, both inclusive.
DocumentedBands ==
    [heartRate   |-> [normal  |-> <<60 * Scale, 100 * Scale>>,
                      warning |-> <<50 * Scale, 120 * Scale>>],
     systolic    |-> [normal  |-> <<90 * Scale, 140 * Scale>>,
                      warning |-> <<80 * Scale, 160 * Scale>>],
     diastolic   |-> [normal  |-> <<60 * Scale, 90 * Scale>>,
                      warning |-> <<50 * Scale, 100 * Scale>>],
     spo2        |-> [normal  |-> <<95 * Scale, 100 * Scale>>,
                      warning |-> <<90 * Scale, 95 * Scale>>],
     temperature |-> [normal  |-> <<360 * Tenth, 375 * Tenth>>,
                      warning |-> <<355 * Tenth, 385 * Tenth>>]]

InBand(value, band) == value >= band[1] /\ value <= band[2]

\* The heart-rate values the documentation classifies.
DocumentedHeartRate ==
    {<<60 * Scale, "stable">>, <<100 * Scale, "stable">>,
     <<60 * Scale - 1, "warning">>, <<50 * Scale, "warning">>,
     <<120 * Scale, "warning">>, <<50 * Scale - 1, "critical">>,
     <<120 * Scale + 1, "critical">>}

\* C3: getVitalStatus returns stable exactly when the value is inside the
\* normal band (bounds included), warning exactly when it is outside the
\* normal band and inside the warning band (bounds included), and critical
\* otherwise; heart rate 60 and 100 are stable, 59.99, 50 and 120 warning,
\* 49.99 and 120.01 critical.
C3_StatusByBand ==
    call.op = "getVitalStatus" =>
        LET inNormal == InBand(call.value,
                               DocumentedBands[call.vitalType].normal)
            inWarning == InBand(call.value,
                                DocumentedBands[call.vitalType].warning)
        IN  /\ call.result \in Statuses
            /\ (call.result = "stable") <=> inNormal
            /\ (call.result = "warning") <=> (~inNormal /\ inWarning)
            /\ (call.result = "critical") <=> (~inNormal /\ ~inWarning)
            /\ \A e \in DocumentedHeartRate :
                  (call.vitalType = "heartRate" /\ call.value = e[1])
                     => call.result = e[2]

\* C3 happens: heart rate 59.99, one hundredth below the normal band, is
\* classified warning.
C3_Witness ==
    /\ call.op = "getVitalStatus"
    /\ call.vitalType = "heartRate"
    /\ call.value = 60 * Scale - 1
    /\ call.result = "warning"

\* The severity order stable < warning < critical.
SeverityRank(status) ==
    CASE status = "stable" -> 0
      [] status = "warning" -> 1
      [] status = "critical" -> 2

\* The classifications of the latest samples of a bundle's non-empty series.
LatestStatuses(vitals) ==
    {getVitalStatus(vitals[v][Len(vitals[v])].value, v) :
        v \in {w \in VitalTypes : Len(vitals[w]) > 0}}

\* C4: calculatePatientStatus returns the worst severity over the latest
\* samples of the non-empty series: critical iff some latest value
\* classifies critical, stable iff every latest value classifies stable
\* (which includes the bundle of five empty series).
C4_WorstOfLatest ==
    call.op = "calculatePatientStatus" =>
        LET statuses == LatestStatuses(call.vitals)
        IN  /\ call.result \in Statuses
            /\ (call.result = "critical") <=> ("critical" \in statuses)
            /\ (call.result = "stable") <=> (statuses \subseteq {"stable"})
            /\ \A st \in statuses :
                  SeverityRank(st) <= SeverityRank(call.result)
            /\ statuses # {} => call.result \in statuses
            /\ statuses = {} => call.result = "stable"

\* C4 happens: a bundle with an empty series, a series whose older sample
\* is critical and whose latest is stable, and a latest warning sample as
\* its worst, is classified warning.
C4_Witness ==
    /\ call.op = "calculatePatientStatus"
    /\ call.result = "warning"
    /\ \E v \in VitalTypes : call.vitals[v] = <<>>
    /\ \E v \in VitalTypes :
          /\ Len(call.vitals[v]) = 2
          /\ getVitalStatus(call.vitals[v][1].value, v) = "critical"
          /\ getVitalStatus(call.vitals[v][2].value, v) = "stable"

(***************************************************************************)
(* Claims about the store (checked under Spec).                            *)
(***************************************************************************)
\* C2: in every reachable state of the store every stored series has at
\* most 10 samples, and its timestamps are non-decreasing from first to
\* last.
C2_SeriesBoundedAndOrdered ==
    \A p \in DOMAIN patientVitals : \A v \in VitalTypes :
        LET signs == patientVitals[p][v]
        IN  /\ Len(signs) <= 10
            /\ \A i \in 1 .. (Len(signs) - 1) :
                  signs[i].timestamp <= signs[i + 1].timestamp

\* C2 happens: a full series whose two latest samples were appended by two
\* ticks one period apart, the oldest samples evicted.
C2_Witness ==
    \E p \in DOMAIN patientVitals : \E v \in VitalTypes :
        LET signs == patientVitals[p][v]
        IN  /\ Len(signs) = 10
            /\ signs[10].timestamp - signs[9].timestamp = SIMULATION_INTERVAL
            /\ signs[9].timestamp - signs[8].timestamp = SIMULATION_INTERVAL

\* The updateVitals calls one period makes for patient p: one for each
\* place p has in the roster of a live interval.
UpdateCallsPerPeriod(p) ==
    Cardinality({<<h, i>> \in (DOMAIN intervals) \X (1 .. Cardinality(Patients)) :
                    /\ i <= Len(intervals[h].roster)
                    /\ intervals[h].roster[i] = p})

\* C5: at most one periodic driver is live, and it is the one the store
\* records; every interval an earlier startSimulation created has been
\* cleared; each live driver fires within one period of 2500 ms, so each
\* patient of the recorded driver's roster gets exactly one updateVitals
\* call per period, and nobody else gets any.
C5_OneLiveDriver ==
    /\ Cardinality(DOMAIN intervals) <= 1
    /\ DOMAIN intervals \subseteq {simulationInterval}
    /\ isSimulating => DOMAIN intervals = {simulationInterval}
    /\ \A h \in DOMAIN intervals :
          /\ intervals[h].due >= now
          /\ intervals[h].due <= now + SIMULATION_INTERVAL
    /\ \A p \in Patients :
          UpdateCallsPerPeriod(p) =
             IF /\ isSimulating
                /\ \E i \in 1 .. Len(intervals[simulationInterval].roster) :
                      intervals[simulationInterval].roster[i] = p
             THEN 1 ELSE 0

\* C5 happens: startSimulation has been called again while a driver was
\* live; only the interval of the later call is live.
C5_Witness ==
    /\ isSimulating
    /\ simulationInterval > 1
    /\ DOMAIN intervals = {simulationInterval}
    /\ intervals[simulationInterval].roster # <<>>

\* C6: stopSimulation leaves isSimulating false, simulationInterval null,
\* no live driver and patientVitals as it was; called when already stopped
\* it changes nothing, so that two calls in a row leave the state of one.
C6_StopIdempotent ==
    [][StopSimulation =>
        /\ isSimulating' = FALSE
        /\ simulationInterval' = Null
        /\ intervals' = EmptyMap
        /\ patientVitals' = patientVitals
        /\ (isSimulating = FALSE /\ simulationInterval = Null)
              => UNCHANGED vars]_vars

\* C6 happens: stopSimulation has stopped a driver and left the bundles.
C6_Witness ==
    /\ isSimulating = FALSE
    /\ simulationInterval = Null
    /\ nextHandle > 1
    /\ intervals = EmptyMap
    /\ patientVitals # EmptyMap

\* C7: from stopSimulation until the next startSimulation (isSimulating is
\* false) no tick starts and none is in progress: a step that changes
\* patientVitals is an initializeVitals, a clearVitals or the startSimulation
\* call itself.
C7_NoTickAfterStop ==
    [][isSimulating = FALSE =>
        /\ running = NoTick /\ running' = NoTick
        /\ \/ patientVitals' = patientVitals
           \/ isSimulating' = TRUE
           \/ ClearVitals
           \/ \E p \in Patients, t \in Trends, d \in StoreHistoryDraws :
                 InitializeVitals(p, t, d)]_vars

\* C7 happens: a driver was started and stopped, and more than a period
\* has passed since a bundle last changed.
C7_Witness ==
    /\ isSimulating = FALSE
    /\ nextHandle > 1
    /\ \E p \in DOMAIN patientVitals : \A v \in VitalTypes :
          LET signs == patientVitals[p][v]
          IN  signs[Len(signs)].timestamp + SIMULATION_INTERVAL < now

\* What useNursePatients' queryFn, or a subscriber run by a set(), reads
\* from the store: each patient's bundle, empty vitals where there is none.
readerView(pv) ==
    [p \in Patients |-> IF p \in DOMAIN pv THEN pv[p] ELSE createEmptyVitals]

\* after is before with one sample appended at time t, the oldest dropped
\* beyond 10.
AdvancedAt(before, after, t) ==
    /\ Len(after) >= 1
    /\ after[Len(after)].timestamp = t
    /\ LET appended == Append(before, after[Len(after)])
       IN  after = IF Len(appended) > 10 THEN Tail(appended) ELSE appended

\* C8: between any two states a reader can be given while a tick runs, each
\* patient's bundle is either the same or has all five series advanced by
\* the tick's sample; no published bundle has some series advanced and
\* others not.
C8_BundlePublishedWhole ==
    [][running # NoTick =>
        \A p \in Patients :
            LET before == readerView(patientVitals)[p]
                after == readerView(patientVitals')[p]
            IN  \/ after = before
                \/ \A v \in VitalTypes : AdvancedAt(before[v], after[v], now)
      ]_vars

\* C8 happens: a reader comes in the middle of a tick over two patients,
\* the first patient's five series advanced and the second's not yet.
C8_Witness ==
    /\ running # NoTick
    /\ running[2] = 2
    /\ LET roster == intervals[running[1]].roster
       IN  /\ roster[1] \in DOMAIN patientVitals
           /\ roster[2] \in DOMAIN patientVitals
           /\ \A v \in VitalTypes :
                 LET first == patientVitals[roster[1]][v]
                     second == patientVitals[roster[2]][v]
                 IN  /\ first[Len(first)].timestamp = now
                     /\ second[Len(second)].timestamp < now

\* C9: a startSimulation(patientIds) step (the one step that takes a new
\* interval handle) creates a bundle, generated with regime normal, for
\* exactly the roster ids that had none, and leaves every bundle that
\* existed unchanged.
C9_StartInitializesMissingOnly ==
    [][nextHandle' # nextHandle =>
        LET roster == intervals'[nextHandle].roster
            ids == {roster[i] : i \in 1 .. Len(roster)}
        IN  /\ DOMAIN patientVitals' = DOMAIN patientVitals \cup ids
            /\ \A p \in DOMAIN patientVitals :
                  patientVitals'[p] = patientVitals[p]
            /\ \A p \in ids \ DOMAIN patientVitals :
                  \E d \in StoreHistoryDraws :
                     patientVitals'[p] = initializeAllVitals("normal", now, d)
      ]_vars

\* C9 happens: a driver started at this instant over two patients; one
\* bundle is a fresh normal history, the other is older and was kept.
C9_Witness ==
    /\ running = NoTick
    /\ isSimulating
    /\ intervals[simulationInterval].due = now + SIMULATION_INTERVAL
    /\ LET roster == intervals[simulationInterval].roster
       IN  /\ Len(roster) = 2
           /\ roster[1] \in DOMAIN patientVitals
           /\ roster[2] \in DOMAIN patientVitals
           /\ \E d \in StoreHistoryDraws :
                 patientVitals[roster[1]] =
                    initializeAllVitals("normal", now, d)
           /\ \A v \in VitalTypes :
                 LET kept == patientVitals[roster[2]][v]
                 IN  kept[Len(kept)].timestamp < now

\* C10: a clearVitals step empties the patient-to-bundle map, and a step
\* that empties the map leaves isSimulating, simulationInterval and the live
\* drivers as they were.
C10_ClearKeepsDriver ==
    [][/\ ClearVitals => patientVitals' = EmptyMap
       /\ (patientVitals # EmptyMap /\ patientVitals' = EmptyMap) =>
             /\ isSimulating' = isSimulating
             /\ simulationInterval' = simulationInterval
             /\ intervals' = intervals
      ]_vars

\* C10 happens: the map is empty while a driver over a non-empty roster is
\* still live.
C10_Witness ==
    /\ isSimulating
    /\ patientVitals = EmptyMap
    /\ simulationInterval \in DOMAIN intervals
    /\ intervals[simulationInterval].roster # <<>>

\* C11: within a tick, the update for a roster patient that has no bundle
\* leaves patientVitals, isSimulating and simulationInterval unchanged and
\* the tick goes on to the next roster patient; the update for a patient
\* that has a bundle advances all five series; getPatientVitals of an id
\* with no bundle is the absent result.
C11_MissingBundleSkipped ==
    [][running # NoTick =>
        LET roster == intervals[running[1]].roster
            idx == running[2]
            p == roster[idx]
        IN  /\ running' = IF idx = Len(roster) THEN NoTick
                          ELSE <<running[1], idx + 1>>
            /\ p \notin DOMAIN patientVitals =>
                  /\ getPatientVitals(patientVitals, p) = <<>>
                  /\ patientVitals' = patientVitals
                  /\ isSimulating' = isSimulating
                  /\ simulationInterval' = simulationInterval
            /\ p \in DOMAIN patientVitals =>
                  /\ getPatientVitals(patientVitals', p) = <<patientVitals'[p]>>
                  /\ \A v \in VitalTypes :
                        AdvancedAt(patientVitals[p][v], patientVitals'[p][v],
                                   now)
      ]_vars

\* C11 happens: a tick over two patients has just ended; the first has no
\* bundle and the second's series end with the tick's sample, appended to
\* samples of an earlier time.
C11_Witness ==
    /\ running = NoTick
    /\ \E h \in DOMAIN intervals :
          LET roster == intervals[h].roster
          IN  /\ Len(roster) = 2
              /\ intervals[h].due = now + SIMULATION_INTERVAL
              /\ roster[1] \notin DOMAIN patientVitals
              /\ roster[2] \in DOMAIN patientVitals
              /\ \A v \in VitalTypes :
                    LET series == patientVitals[roster[2]][v]
                    IN  /\ Len(series) = 10
                        /\ series[10].timestamp = now
                        /\ series[9].timestamp < now
                        /\ series[9].timestamp # now - HistoryIntervalMs

\* C12: generateVitalHistory(vitalType, count, intervalMs, regime) returns
\* exactly count samples, consecutive samples exactly intervalMs apart, the
\* last one stamped with the call time, every value within the vital's
\* [min, max].
C12_HistoryShape ==
    call.op = "generateVitalHistory" =>
        LET history == call.result
            range == VITAL_RANGES[call.vitalType]
        IN  /\ Len(history) = call.count
            /\ \A i \in 1 .. (Len(history) - 1) :
                  history[i + 1].timestamp - history[i].timestamp
                     = call.intervalMs
            /\ call.count >= 1 => history[Len(history)].timestamp = call.t
            /\ \A i \in 1 .. Len(history) :
                  /\ history[i].value >= range.min
                  /\ history[i].value <= range.max

\* C12 happens: generateVitalHistory('spo2', 10, 30000, 'normal') at a call
\* time past 0 gave 10 samples, the first 270000 ms before the call, with
\* values that differ.
C12_Witness ==
    /\ call.op = "generateVitalHistory"
    /\ call.vitalType = "spo2"
    /\ call.count = 10
    /\ call.intervalMs = 30000
    /\ call.trend = "normal"
    /\ call.t > 0
    /\ Len(call.result) = 10
    /\ call.result[1].timestamp = call.t - 270000
    /\ call.result[1].value # call.result[10].value

\* C13: after initializeVitals for one patient and n ticks for that patient
\* each of the five series has length min(n + 10, 10) = 10; so it is after
\* initializing with regime critical and exactly 4 ticks.
C13_LengthAfterTicks ==
    call.op = "run" =>
        \A v \in VitalTypes :
            Len(patientVitals[call.patientId][v])
               = Min2(call.ticks + HistoryCount, 10)

\* C13 happens: a patient initialized critical has had exactly 4 ticks; each
\* series holds the last 6 samples of the history and the 4 tick samples.
C13_Witness ==
    /\ call.op = "run"
    /\ call.trend = "critical"
    /\ call.ticks = 4
    /\ \A v \in VitalTypes :
          LET series == patientVitals[call.patientId][v]
          IN  /\ Len(series) = 10
              /\ series[6].timestamp = 0
              /\ series[7].timestamp = SIMULATION_INTERVAL
              /\ series[10].timestamp = now

\* The effect runs again while the page stays mounted: useNursePatients
\* delivered a new, non-empty patients value.
DashboardRefresh ==
    /\ call # NoCall
    /\ call' # NoCall
    /\ \E r \in Rosters, st \in [Patients -> Statuses] :
          \E d \in [Patients -> StoreHistoryDraws] :
             DashboardEffect(r, st, d)

\* C14: while the dashboard stays mounted, a refresh of the patients value
\* does not stop the running driver (the same interval stays the store's
\* live one) and does not re-initialize a bundle that exists.
C14_RefreshKeepsSession ==
    [][DashboardRefresh =>
          /\ simulationInterval' = simulationInterval
          /\ simulationInterval \in DOMAIN intervals'
          /\ \A p \in DOMAIN patientVitals :
                patientVitals'[p] = patientVitals[p]
      ]_vars

\* C15: a tick starts only when no tick is in progress, with the first
\* roster patient; once started it updates the roster patients one after
\* the other in roster order, each step changing the bundle of that one
\* patient only, and until its last patient is done no interval fires, is
\* created or is cleared: no update of another tick comes in between.
C15_TicksDoNotOverlap ==
    [][/\ (running = NoTick /\ running' # NoTick) =>
             /\ running'[2] = 1
             /\ intervals[running'[1]].due = now
             /\ intervals[running'[1]].roster # <<>>
             /\ patientVitals' = patientVitals
       /\ running # NoTick =>
             LET roster == intervals[running[1]].roster
                 idx == running[2]
             IN  /\ intervals' = intervals
                 /\ running' = IF idx = Len(roster) THEN NoTick
                               ELSE <<running[1], idx + 1>>
                 /\ \A q \in Patients \ {roster[idx]} :
                       readerView(patientVitals')[q]
                          = readerView(patientVitals)[q]
                 /\ roster[idx] \in DOMAIN patientVitals =>
                       \A v \in VitalTypes :
                          AdvancedAt(patientVitals[roster[idx]][v],
                                     patientVitals'[roster[idx]][v], now)
      ]_vars

\* C15 happens: two ticks of one driver over two patients have run to
\* their end, one period apart; both patients carry both ticks' samples.
C15_Witness ==
    /\ running = NoTick
    /\ isSimulating
    /\ LET roster == intervals[simulationInterval].roster
       IN  /\ Len(roster) = 2
           /\ \A i \in 1 .. 2 :
                 /\ roster[i] \in DOMAIN patientVitals
                 /\ \A v \in VitalTypes :
                       LET series == patientVitals[roster[i]][v]
                       IN  /\ Len(series) = 10
                           /\ series[10].timestamp = now
                           /\ series[9].timestamp = now - SIMULATION_INTERVAL
                           /\ series[9].timestamp - series[8].timestamp
                                 <= SIMULATION_INTERVAL
                           /\ series[7].timestamp
                                 = series[8].timestamp - HistoryIntervalMs

\* C16 as stated: for the vital type of a getVitalStatus call, the normal
\* band is contained in the warning band (normal[0] >= warning[0] and
\* normal[1] <= warning[1]), so a value inside the normal band is inside
\* the warning band as well.
C16_NormalWithinWarning ==
    call.op = "getVitalStatus" =>
        LET threshold == THRESHOLDS[call.vitalType]
        IN  /\ threshold.normal[1] >= threshold.warning[1]
            /\ threshold.normal[2] <= threshold.warning[2]
            /\ InBand(call.value, threshold.normal) =>
                  InBand(call.value, threshold.warning)

\* C16 amended: the normal band is contained in the warning band for
\* heartRate, systolic, diastolic and temperature; for spo2 the warning band
\* starts below the normal band and ends where the normal band starts, the
\* two sharing that one value; for every vital type a value inside the
\* normal band is classified stable.
C16_NormalWithinWarningButSpo2 ==
    call.op = "getVitalStatus" =>
        LET threshold == THRESHOLDS[call.vitalType]
            inNormal == InBand(call.value, threshold.normal)
            inWarning == InBand(call.value, threshold.warning)
        IN  /\ threshold.normal[1] >= threshold.warning[1]
            /\ call.vitalType # "spo2" =>
                  /\ threshold.normal[2] <= threshold.warning[2]
                  /\ inNormal => inWarning
            /\ call.vitalType = "spo2" =>
                  /\ threshold.warning[2] = threshold.normal[1]
                  /\ (inNormal /\ inWarning) =>
                        call.value = threshold.normal[1]
            /\ inNormal => call.result = "stable"

\* C16 happens: getVitalStatus is given an spo2 value inside the normal
\* band and above the warning band, and answers stable.
C16_Witness ==
    /\ call.op = "getVitalStatus"
    /\ call.vitalType = "spo2"
    /\ InBand(call.value, THRESHOLDS["spo2"].normal)
    /\ call.value > THRESHOLDS["spo2"].warning[2]
    /\ call.result = "stable"

\* The value a tick gives generateVitalUpdate for a series: its last stored
\* value, 0 if it has none.
LastOrZero(signs) ==
    IF Len(signs) = 0 THEN 0 ELSE signs[Len(signs)].value

\* stable -> normal, warning -> warning, critical -> critical
RegimeOf(status) ==
    CASE status = "stable"   -> "normal"
      [] status = "warning"  -> "warning"
      [] status = "critical" -> "critical"

\* C17: in a tick, the new sample of each of the five vitals is
\* generateVitalUpdate's result under one regime: the aggregate severity of
\* the bundle as it was before the tick, mapped stable -> normal,
\* warning -> warning, critical -> critical.
C17_RegimeFromPreTickBundle ==
    call.op = "updateVitals" =>
        LET regime == RegimeOf(calculatePatientStatus(call.vitals))
        IN  \A v \in VitalTypes :
               LET after == call.result[v]
               IN  after[Len(after)].value
                      = generateVitalUpdate(LastOrZero(call.vitals[v]), v,
                                            regime, call.draw[v])

\* C17 happens: a bundle is critical by its heart rate alone, and the tick
\* brings the heart rate out of the critical zone; the vitals updated after
\* it were still given the regime critical.
C17_Witness ==
    /\ call.op = "updateVitals"
    /\ calculatePatientStatus(call.vitals) = "critical"
    /\ \A v \in VitalTypes : call.vitals[v] # <<>>
    /\ getVitalStatus(LastOrZero(call.vitals["heartRate"]), "heartRate")
          = "critical"
    /\ \A v \in VitalTypes \ {"heartRate"} :
          getVitalStatus(LastOrZero(call.vitals[v]), v) = "stable"
    /\ getVitalStatus(LastOrZero(call.result["heartRate"]), "heartRate")
          # "critical"
    /\ LastOrZero(call.result["temperature"])
          # generateVitalUpdate(LastOrZero(call.vitals["temperature"]),
                                "temperature", "warning",
                                call.draw["temperature"])
    /\ LastOrZero(call.result["temperature"])
          # generateVitalUpdate(LastOrZero(call.vitals["temperature"]),
                                "temperature", "normal",
                                call.draw["temperature"])

\* C18: a tick appends to each of the five series exactly one sample, whose
\* value generateVitalUpdate computed from the series' last stored value (0
\* for an empty series); beyond 10 samples exactly the oldest is dropped:
\* the new series is the old one without its first sample, in its order,
\* followed by the new sample.
C18_AppendOneDropOldest ==
    call.op = "updateVitals" =>
        \A v \in VitalTypes :
            LET before == call.vitals[v]
                after == call.result[v]
                newSign == after[Len(after)]
            IN  /\ newSign.timestamp = call.t
                /\ \E trend \in Trends :
                      newSign.value
                         = generateVitalUpdate(LastOrZero(before), v, trend,
                                               call.draw[v])
                /\ after = IF Len(before) + 1 > 10
                           THEN Append(Tail(before), newSign)
                           ELSE Append(before, newSign)

\* C18 happens: a tick on a bundle of five full series; each new series
\* starts with the old second sample and ends with the tick's sample.
C18_Witness ==
    /\ call.op = "updateVitals"
    /\ \A v \in VitalTypes :
          /\ Len(call.vitals[v]) = 10
          /\ Len(call.result[v]) = 10
          /\ call.result[v][1] = call.vitals[v][2]
          /\ call.result[v][9] = call.vitals[v][10]
          /\ call.result[v][10].timestamp = call.t

\* C19: if every latest value of a bundle is inside its normal band before
\* a tick, the bundle's aggregate severity is stable after the tick, for
\* every noise draw.
C19_StableStaysStable ==
    (/\ call.op = "updateVitals"
     /\ \A v \in VitalTypes :
           /\ call.vitals[v] # <<>>
           /\ InBand(LastOrZero(call.vitals[v]), THRESHOLDS[v].normal))
    => calculatePatientStatus(call.result) = "stable"

\* C20: right after startSimulation has created a bundle for a patient that
\* had none, calculatePatientStatus of that bundle is stable, for every
\* outcome of the random draws.
C20_NewEntrantsStable ==
    [][nextHandle' # nextHandle =>
        LET roster == intervals'[nextHandle].roster
            ids == {roster[i] : i \in 1 .. Len(roster)}
        IN  \A p \in ids \ DOMAIN patientVitals :
               calculatePatientStatus(patientVitals'[p]) = "stable"
      ]_vars

(***************************************************************************)
(* C21: generateBaselineValue samples around a shifted mean.               *)
(***************************************************************************)
\* A sample drawn z deviations from range.mean * meanPct / 100 with
\* range.stdDev * sdTenths / 10, clamped to the vital's range.
SampledAround(vitalType, meanPct, sdTenths, z) ==
    LET range == VITAL_RANGES[vitalType]
    IN  clamp(RoundDiv(z * range.stdDev * sdTenths * 10
                       + range.mean * meanPct, 100),
              range.min, range.max)

\* C21 as stated: generateBaselineValue under warning samples around
\* mean x 1.15 or mean x 0.85 with stdDev x 1.2, under critical around
\* mean x 1.30 or mean x 0.70 with stdDev x 1.5, and under normal around the
\* nominal mean with the nominal stdDev.
C21_SymmetricShift ==
    call.op = "generateBaselineValue" =>
        LET v == call.vitalType
            z == call.draw.z
        IN  CASE call.trend = "normal" ->
                    call.result = SampledAround(v, 100, 10, z)
              [] call.trend = "warning" ->
                    call.result \in {SampledAround(v, 115, 12, z),
                                     SampledAround(v, 85, 12, z)}
              [] call.trend = "critical" ->
                    call.result \in {SampledAround(v, 130, 15, z),
                                     SampledAround(v, 70, 15, z)}

\* C21 amended: generateBaselineValue under warning samples around
\* mean x 1.15 or mean x 0.90 with stdDev x 1.2, under critical around
\* mean x 1.30 or mean x 0.80 with stdDev x 1.5, and under normal around the
\* nominal mean with the nominal stdDev; the upward shift is taken when
\* Math.random() > 0.5.
C21_AsymmetricShift ==
    call.op = "generateBaselineValue" =>
        LET v == call.vitalType
            z == call.draw.z
            up == call.draw.up
        IN  CASE call.trend = "normal" ->
                    call.result = SampledAround(v, 100, 10, z)
              [] call.trend = "warning" ->
                    call.result = SampledAround(v, IF up THEN 115 ELSE 90, 12, z)
              [] call.trend = "critical" ->
                    call.result = SampledAround(v, IF up THEN 130 ELSE 80, 15, z)

\* A warning baseline of heart rate drawn at the downward mean itself:
\* 75 x 0.90 = 67.5, while 75 x 0.85 would be 63.75.
C21_Witness ==
    /\ call.op = "generateBaselineValue"
    /\ call.vitalType = "heartRate"
    /\ call.trend = "warning"
    /\ call.draw = [up |-> FALSE, z |-> 0]
    /\ call.result = 6750

(***************************************************************************)
(* C22: the drift targets of generateVitalUpdate under the warning regime. *)
(***************************************************************************)
\* currentValue + noise + drift, clamped, where noise is currentValue x 1.5 %
\* x k / UDen and drift is (target100 / 100 - currentValue) x rate1000 / 1000.
SteppedToward(currentValue, vitalType, k, target100, rate1000) ==
    LET range == VITAL_RANGES[vitalType]
        noiseNum == currentValue * 15 * k * 100
        driftNum == (target100 - currentValue * 100) * rate1000 * UDen
    IN  clamp(currentValue + RoundDiv(noiseNum + driftNum, 100000 * UDen),
              range.min, range.max)

\* C22 as stated: under warning the result is current + noise + drift clamped,
\* with |noise| at most 1.5 % of current and the drift taken toward the
\* nominal mean at 0.08 x 0.8, or toward mean x 1.12 or mean x 0.88 at
\* 0.08 x 1.0; no other target is used.
C22_SymmetricTargets ==
    (call.op = "generateVitalUpdate" /\ call.trend = "warning") =>
        LET cur == call.currentValue
            v == call.vitalType
            k == call.draw.k
            mean == VITAL_RANGES[v].mean
        IN  /\ -UDen <= k /\ k <= UDen
            /\ call.result \in {SteppedToward(cur, v, k, mean * 100, 64),
                                SteppedToward(cur, v, k, mean * 112, 80),
                                SteppedToward(cur, v, k, mean * 88, 80)}

\* C22 amended: under warning the result is current + noise + drift clamped,
\* with |noise| at most 1.5 % of current; when the call does not worsen the
\* drift is toward the nominal mean at 0.08 x 0.8, and when it worsens the
\* drift is toward mean x 1.12 (upward) or mean x 0.92 (downward) at
\* 0.08 x 1.0; no other target is used.
C22_AsymmetricTargets ==
    (call.op = "generateVitalUpdate" /\ call.trend = "warning") =>
        LET cur == call.currentValue
            v == call.vitalType
            k == call.draw.k
            mean == VITAL_RANGES[v].mean
        IN  /\ -UDen <= k /\ k <= UDen
            /\ call.result =
                  IF ~call.draw.worsen
                  THEN SteppedToward(cur, v, k, mean * 100, 64)
                  ELSE IF call.draw.up
                       THEN SteppedToward(cur, v, k, mean * 112, 80)
                       ELSE SteppedToward(cur, v, k, mean * 92, 80)

\* A worsening downward step of heart rate that the clamp leaves alone: the
\* result differs from the one a target of mean x 0.88 would give.
C22_Witness ==
    /\ call.op = "generateVitalUpdate"
    /\ call.trend = "warning"
    /\ call.vitalType = "heartRate"
    /\ call.draw.worsen /\ ~call.draw.up
    /\ call.result > VITAL_RANGES["heartRate"].min
    /\ call.result < VITAL_RANGES["heartRate"].max
    /\ call.result = SteppedToward(call.currentValue, "heartRate", call.draw.k,
                                   VITAL_RANGES["heartRate"].mean * 92, 80)
    /\ call.result # SteppedToward(call.currentValue, "heartRate", call.draw.k,
                                   VITAL_RANGES["heartRate"].mean * 88, 80)

(***************************************************************************)
(* The store's objects: SpecHeap.  The maps, bundles and series arrays the *)
(* store's writers allocate are kept by identity, so that a write into an  *)
(* object a reader still holds would show.  call holds the heap: maps,     *)
(* bundles and arrays are indexed by reference, root is the reference in   *)
(* state.patientVitals, held is <<>> or the map reference a reader took    *)
(* with the contents it saw; patientVitals is the contents behind root.    *)
(***************************************************************************)
\* The writes (initializeVitals, updateVitals of an existing bundle,
\* clearVitals) of one run.
MaxHeapOps == 3

\* The contents reachable from the map with reference m.
Deref(heap, m) ==
    [p \in DOMAIN heap.maps[m] |->
        [v \in VitalTypes |-> heap.arrays[heap.bundles[heap.maps[m][p]][v]]]]

\* currentSigns.push(newSign) and shift() on the array of the bundle in the
\* store, instead of on a copy: the array with reference currentSigns is
\* overwritten and stays the bundle's series.
spreadAppendInPlace(arrays, currentSigns, signs) ==
    [arrays |-> [arrays EXCEPT ![currentSigns] = signs],
     ref |-> currentSigns]

\* const updatedSigns = [...currentSigns, newSign] and its shift(): a new
\* array holding signs; the array with reference currentSigns is left alone.
spreadAppend(arrays, currentSigns, signs) ==
    [arrays |-> Append(arrays, signs), ref |-> Len(arrays) + 1]

RECURSIVE heapForEach(_, _, _, _, _, _, _)
\* vitalTypes.forEach from its i-th vital type on: arrays is the array heap
\* so far, updatedRefs the bundle object being built, currentRefs the bundle
\* read from the map.
heapForEach(arrays, updatedRefs, currentRefs, i, trendBias, t, d) ==
    IF i > Len(vitalTypes) THEN [arrays |-> arrays, refs |-> updatedRefs]
    ELSE LET v == vitalTypes[i]
             currentSigns == currentRefs[v]
             w == spreadAppend(arrays, currentSigns,
                               updatedSigns(arrays[currentSigns], v,
                                            trendBias, t, d[v]))
         IN  heapForEach(w.arrays, [updatedRefs EXCEPT ![v] = w.ref],
                         currentRefs, i + 1, trendBias, t, d)

InitHeap ==
    /\ patientVitals = EmptyMap
    /\ isSimulating = FALSE
    /\ simulationInterval = Null
    /\ intervals = EmptyMap
    /\ nextHandle = 1
    /\ now = 0
    /\ running = NoTick
    /\ call = [op |-> "heap", maps |-> <<EmptyMap>>, bundles |-> <<>>,
               arrays |-> <<>>, root |-> 1, held |-> <<>>, writes |-> 0]

\* initializeVitals: a copy of the map, a new bundle of five new arrays.
HeapInitializeVitals(patientId, initialTrend, d) ==
    /\ call.writes < MaxHeapOps
    /\ LET vitals == initializeAllVitals(initialTrend, now, d)
           base == Len(call.arrays)
           refs == [v \in VitalTypes |->
                       base + (CHOOSE i \in 1 .. Len(vitalTypes) :
                                  vitalTypes[i] = v)]
           bundle == Len(call.bundles) + 1
           newVitals == MapSet(call.maps[call.root], patientId, bundle)
       IN  call' = [call EXCEPT
                       !.arrays = call.arrays
                                    \o [i \in 1 .. Len(vitalTypes) |->
                                           vitals[vitalTypes[i]]],
                       !.bundles = Append(call.bundles, refs),
                       !.maps = Append(call.maps, newVitals),
                       !.root = Len(call.maps) + 1,
                       !.writes = call.writes + 1]
    /\ patientVitals' = Deref(call', call'.root)
    /\ UNCHANGED <<isSimulating, simulationInterval, intervals, nextHandle,
                   now, running>>

\* updateVitals: the state itself when the patient has no bundle; otherwise,
\* one TimeStep after the step before, a copy of the map and a copy of the
\* bundle whose five series are replaced in the forEach.
HeapUpdateVitals(patientId, d) ==
    /\ call.writes < MaxHeapOps
    /\ now + TimeStep <= MaxTime
    /\ IF patientId \notin DOMAIN call.maps[call.root]
       THEN UNCHANGED <<call, now>>
       ELSE /\ now' = now + TimeStep
            /\ LET currentRefs ==
                        call.bundles[call.maps[call.root][patientId]]
                    currentVitals == Deref(call, call.root)[patientId]
                    currentStatus == calculatePatientStatus(currentVitals)
                    trendBias == IF currentStatus = "stable" THEN "normal"
                                 ELSE currentStatus
                    r == heapForEach(call.arrays, currentRefs, currentRefs,
                                     1, trendBias, now', d)
                    bundle == Len(call.bundles) + 1
                    newVitals == MapSet(call.maps[call.root], patientId,
                                        bundle)
                IN  call' = [call EXCEPT
                                !.arrays = r.arrays,
                                !.bundles = Append(call.bundles, r.refs),
                                !.maps = Append(call.maps, newVitals),
                                !.root = Len(call.maps) + 1,
                                !.writes = call.writes + 1]
    /\ patientVitals' = Deref(call', call'.root)
    /\ UNCHANGED <<isSimulating, simulationInterval, intervals, nextHandle,
                   running>>

\* clearVitals: a new empty map.
HeapClearVitals ==
    /\ call.writes < MaxHeapOps
    /\ call' = [call EXCEPT !.maps = Append(call.maps, EmptyMap),
                            !.root = Len(call.maps) + 1,
                            !.writes = call.writes + 1]
    /\ patientVitals' = EmptyMap
    /\ UNCHANGED <<isSimulating, simulationInterval, intervals, nextHandle,
                   now, running>>

\* useVitalsStore.getState().patientVitals: a reader takes the map.
HeapRead ==
    /\ call' = [call EXCEPT
                   !.held = <<[map |-> call.root,
                               seen |-> Deref(call, call.root)]>>]
    /\ UNCHANGED storeVars

NextHeap ==
    \/ \E p \in Patients, t \in Trends, d \in StoreHistoryDraws :
          HeapInitializeVitals(p, t, d)
    \/ \E p \in Patients, d \in StoreUpdateDraws : HeapUpdateVitals(p, d)
    \/ HeapClearVitals
    \/ HeapRead

SpecHeap == InitHeap /\ [][NextHeap]_vars

(***************************************************************************)
(* C23: the store's writes are non-mutating.                               *)
(***************************************************************************)
\* C23: the map a reader obtained, every bundle in it and every series in
\* those bundles still have the contents the reader saw, whatever ticks,
\* initializeVitals or clearVitals came after; every write publishes a new
\* map, and a tick or initializeVitals new series arrays for its patient.
C23_WritesDoNotMutate ==
    /\ call.held # <<>> =>
          Deref(call, call.held[1].map) = call.held[1].seen
    /\ \A m \in 1 .. (Len(call.maps) - 1) :
          \A p \in DOMAIN call.maps[m] \cap DOMAIN call.maps[call.root] :
             call.maps[m][p] # call.maps[call.root][p] =>
                \A v \in VitalTypes :
                   call.bundles[call.maps[m][p]][v]
                      # call.bundles[call.maps[call.root][p]][v]
    /\ call.root = Len(call.maps)
    /\ Len(call.maps) = call.writes + 1

\* A reader took the map, then a tick advanced a patient in it: the store
\* now shows the patient's series shifted by one sample, the reader's map
\* does not.
C23_Witness ==
    /\ call.held # <<>>
    /\ call.held[1].map # call.root
    /\ \E p \in DOMAIN call.held[1].seen \cap DOMAIN patientVitals :
          \A v \in VitalTypes :
             /\ Len(patientVitals[p][v]) = MAX_HISTORY_POINTS
             /\ SubSeq(patientVitals[p][v], 1, MAX_HISTORY_POINTS - 1)
                   = Tail(call.held[1].seen[p][v])
             /\ patientVitals[p][v][MAX_HISTORY_POINTS].timestamp = now

(***************************************************************************)
(* C24: the running flag, the handle and the live driver agree.            *)
(***************************************************************************)
\* C24: in every reachable state of the store isSimulating is true exactly
\* when simulationInterval is not null, and exactly when one driver interval
\* is live; that driver is the one simulationInterval names, and otherwise
\* none is live.
C24_FlagHandleDriverAgree ==
    /\ isSimulating <=> simulationInterval # Null
    /\ isSimulating <=> Cardinality(DOMAIN intervals) = 1
    /\ isSimulating => DOMAIN intervals = {simulationInterval}
    /\ ~isSimulating => intervals = EmptyMap

\* C24 happens: a second driver, started after the first was stopped, is in
\* the middle of a tick; it is the only live interval and the one the store
\* names.
C24_Witness ==
    /\ isSimulating
    /\ running # NoTick
    /\ nextHandle > 2
    /\ simulationInterval = running[1]
    /\ DOMAIN intervals = {running[1]}

(***************************************************************************)
(* C25: the shape of every stored bundle.                                  *)
(***************************************************************************)
\* C25: every bundle in the store has exactly the five keys heartRate,
\* systolic, diastolic, spo2 and temperature, and each of its series holds
\* exactly 10 samples; no stored series is empty or shorter than 10.
C25_TenSamplesEverywhere ==
    \A p \in DOMAIN patientVitals :
       /\ DOMAIN patientVitals[p] =
             {"heartRate", "systolic", "diastolic", "spo2", "temperature"}
       /\ \A v \in DOMAIN patientVitals[p] : Len(patientVitals[p][v]) = 10

\* C25 happens: a bundle that a tick has just advanced still holds 10
\* samples per series, the newest from the tick and the oldest two from the
\* history it was created with.
C25_Witness ==
    \E p \in DOMAIN patientVitals : \A v \in VitalTypes :
       LET series == patientVitals[p][v]
       IN  /\ Len(series) = 10
           /\ series[10].timestamp = now
           /\ series[9].timestamp < now
           /\ series[9].timestamp > now - HistoryIntervalMs
           /\ series[2].timestamp = series[1].timestamp + HistoryIntervalMs

(***************************************************************************)
(* C26: initializeVitals on a patient that already has a bundle.           *)
(***************************************************************************)
\* C26: initializeVitals(patientId, regime) for a patient that has a bundle
\* replaces the bundle by a fresh history for that regime, 10 samples per
\* series spaced 30 s and ending at the call time, so that no sample of a
\* tick is left in it; the other patients' bundles, isSimulating,
\* simulationInterval and the live driver are unchanged.
C26_InitializeReplaces ==
    [][\A p \in DOMAIN patientVitals, trend \in Trends :
          (/\ running = NoTick
           /\ nextHandle' = nextHandle
           /\ p \in DOMAIN patientVitals'
           /\ patientVitals'[p] # patientVitals[p]
           /\ \E d \in StoreHistoryDraws : InitializeVitals(p, trend, d)) =>
             /\ DOMAIN patientVitals' = DOMAIN patientVitals
             /\ \E d \in StoreHistoryDraws :
                   patientVitals'[p] = initializeAllVitals(trend, now, d)
             /\ \A v \in VitalTypes :
                   LET series == patientVitals'[p][v]
                   IN  /\ Len(series) = 10
                       /\ \A i \in 1 .. 10 :
                             series[i].timestamp = now - (10 - i) * 30000
             /\ \A q \in DOMAIN patientVitals \ {p} :
                   patientVitals'[q] = patientVitals[q]
             /\ isSimulating' = isSimulating
             /\ simulationInterval' = simulationInterval
             /\ intervals' = intervals
      ]_vars

\* C26 happens: a driver over two patients has ticked, and later one of the
\* two was initialized again: its bundle is a fresh history ending now,
\* while the other's still ends with the tick's sample and the driver's next
\* firing is as it was scheduled.
C26_Witness ==
    /\ isSimulating
    /\ running = NoTick
    /\ simulationInterval \in DOMAIN intervals
    /\ intervals[simulationInterval].due < now + SIMULATION_INTERVAL
    /\ LET roster == intervals[simulationInterval].roster
       IN  /\ Len(roster) = 2
           /\ roster[1] \in DOMAIN patientVitals
           /\ roster[2] \in DOMAIN patientVitals
           /\ \E trend \in Trends, d \in StoreHistoryDraws :
                 patientVitals[roster[1]] = initializeAllVitals(trend, now, d)
           /\ \A v \in VitalTypes :
                 LET series == patientVitals[roster[2]][v]
                 IN  /\ series[10].timestamp < now
                     /\ series[10].timestamp
                           # series[9].timestamp + HistoryIntervalMs

(***************************************************************************)
(* One running session: SpecLive.  startSimulation is called while no      *)
(* driver is live, and neither stopSimulation nor clearVitals is called    *)
(* (a restart would call stopSimulation).  The browser's timer is fair: the *)
(* clock advances, an interval that is due fires, and a callback that has  *)
(* started runs to its end; at any moment exactly one of the three can    *)
(* happen.                                                                 *)
(***************************************************************************)
StartFirst(patientIds, d) ==
    /\ simulationInterval = Null
    /\ StartSimulation(patientIds, d)

\* The dashboard's order: bundles are initialized when the page loads, then
\* the driver starts.
InitializeFirst(patientId, initialTrend, d) ==
    /\ simulationInterval = Null
    /\ now = 0
    /\ InitializeVitals(patientId, initialTrend, d)

NextLive ==
    \/ \E p \in Patients, t \in Trends, d \in StoreHistoryDraws :
          InitializeFirst(p, t, d)
    \/ \E r \in Rosters, d \in [Patients -> StoreHistoryDraws] :
          StartFirst(r, d)
    \/ \E h \in DOMAIN intervals : Tick(h)
    \/ \E d \in StoreUpdateDraws : UpdateStep(d)
    \/ TimePasses(TimeStep)

\* What the browser does on its own: the clock, the timer, the callback.
TimerStep ==
    \/ TimePasses(TimeStep)
    \/ \E h \in DOMAIN intervals : Tick(h)
    \/ \E d \in StoreUpdateDraws : UpdateStep(d)

SpecLive == Init /\ [][NextLive]_vars /\ WF_vars(TimerStep)

(***************************************************************************)
(* C30: every roster patient keeps receiving samples.                      *)
(***************************************************************************)
\* p's bundle ends, in each of its five series, with a sample a tick
\* appended after time t.
TickedAfter(p, t) ==
    /\ p \in DOMAIN patientVitals
    /\ \A v \in VitalTypes :
          LET series == patientVitals[p][v]
              n == Len(series)
          IN  /\ n >= 2
              /\ series[n].timestamp > t
              /\ series[n].timestamp
                    # series[n - 1].timestamp + HistoryIntervalMs

\* C30: while the simulation runs and neither stopSimulation nor clearVitals
\* is called, with a fair timer, from any time t that leaves room for one
\* more period, every roster patient that has a bundle eventually receives
\* in each of its five series a sample appended by a tick after t; so a
\* patient ticked once is ticked again.
C30_RosterKeepsTicking ==
    \A t \in {c \in Clock : c + SIMULATION_INTERVAL <= MaxTime} :
       (isSimulating /\ now = t)
          ~> (/\ isSimulating
              /\ \A i \in 1 .. Len(intervals[simulationInterval].roster) :
                    LET p == intervals[simulationInterval].roster[i]
                    IN  p \in DOMAIN patientVitals => TickedAfter(p, t))

\* C30 happens: both patients of a roster have received the samples of two
\* successive ticks.
C30_Witness ==
    /\ isSimulating
    /\ running = NoTick
    /\ Len(intervals[simulationInterval].roster) = 2
    /\ \A p \in Patients :
          /\ TickedAfter(p, now - 1)
          /\ \A v \in VitalTypes :
                /\ patientVitals[p][v][9].timestamp = now - SIMULATION_INTERVAL
                /\ patientVitals[p][v][8].timestamp
                      < now - SIMULATION_INTERVAL

(***************************************************************************)
(* C27: the driver's roster.                                               *)
(***************************************************************************)
\* C27: a tick belongs to the driver of the most recent startSimulation and
\* advances exactly the ids that call was given: each pass of the tick
\* advances the bundle of the roster id it has reached (if it has one) and
\* no other, so a bundle of a patient outside that roster, or only in an
\* earlier roster, is never changed by a tick.
C27_TicksFollowLatestRoster ==
    [][running # NoTick =>
        /\ isSimulating
        /\ running[1] = simulationInterval
        /\ LET roster == intervals[simulationInterval].roster
               p == roster[running[2]]
           IN  /\ DOMAIN patientVitals' = DOMAIN patientVitals
               /\ p \in DOMAIN patientVitals =>
                     patientVitals'[p] # patientVitals[p]
               /\ \A q \in DOMAIN patientVitals \ {p} :
                     patientVitals'[q] = patientVitals[q]
      ]_vars

\* C27 happens: a tick of a driver over one patient has ended; that
\* patient's series end with the tick's sample, while the other patient,
\* who has a bundle but is not in the roster, still has the history it was
\* initialized with a period ago.
C27_Witness ==
    /\ isSimulating
    /\ running = NoTick
    /\ LET roster == intervals[simulationInterval].roster
       IN  /\ Len(roster) = 1
           /\ roster[1] \in DOMAIN patientVitals
           /\ \A v \in VitalTypes :
                 LET series == patientVitals[roster[1]][v]
                 IN  /\ series[10].timestamp = now
                     /\ series[10].timestamp
                           # series[9].timestamp + HistoryIntervalMs
           /\ \E q \in DOMAIN patientVitals \ {roster[1]} :
                 \E trend \in Trends, d \in StoreHistoryDraws :
                    patientVitals[q] =
                       initializeAllVitals(trend, now - SIMULATION_INTERVAL, d)

(***************************************************************************)
(* C28: one tick does not take a stable patient to critical.               *)
(***************************************************************************)
\* Every series of the bundle holds a sample, as every stored bundle does.
HasAllData(vitals) == \A v \in VitalTypes : vitals[v] # <<>>

\* C28 as stated: a patient whose aggregate severity is stable before a
\* tick is not critical after it, and every vital, having started inside
\* its normal band, ends inside its warning band.
C28_StableEndsInWarningBand ==
    (/\ call.op = "updateVitals"
     /\ HasAllData(call.vitals)
     /\ calculatePatientStatus(call.vitals) = "stable")
    => /\ calculatePatientStatus(call.result) # "critical"
       /\ \A v \in VitalTypes :
             InBand(LastOrZero(call.result[v]), THRESHOLDS[v].warning)

\* C28 amended: a patient whose aggregate severity is stable before a tick
\* is not critical after it: every vital, having started inside its normal
\* band, ends inside its normal band or its warning band.
C28_StableNotCriticalNext ==
    (/\ call.op = "updateVitals"
     /\ HasAllData(call.vitals)
     /\ calculatePatientStatus(call.vitals) = "stable")
    => /\ \A v \in VitalTypes :
             InBand(LastOrZero(call.vitals[v]), THRESHOLDS[v].normal)
       /\ calculatePatientStatus(call.result) # "critical"
       /\ \A v \in VitalTypes :
             \/ InBand(LastOrZero(call.result[v]), THRESHOLDS[v].normal)
             \/ InBand(LastOrZero(call.result[v]), THRESHOLDS[v].warning)

\* C28 happens: every vital starts at the lower edge of its normal band and
\* the tick draws the lowest noise; temperature and spo2 leave their normal
\* bands, the patient is warning, not critical.
C28_Witness ==
    /\ call.op = "updateVitals"
    /\ \A v \in VitalTypes :
          /\ Len(call.vitals[v]) = 1
          /\ call.vitals[v][1].value = THRESHOLDS[v].normal[1]
          /\ call.draw[v].k = -UDen
    /\ calculatePatientStatus(call.vitals) = "stable"
    /\ calculatePatientStatus(call.result) = "warning"
    /\ LastOrZero(call.result["temperature"])
          < THRESHOLDS["temperature"].normal[1]
    /\ LastOrZero(call.result["spo2"]) < THRESHOLDS["spo2"].normal[1]

(***************************************************************************)
(* C29: clearVitals while the simulation runs.                             *)
(***************************************************************************)
\* C29: a step that empties the map while the simulation runs leaves the
\* store running with its driver; while the map is empty every pass of a
\* tick leaves it empty and the store running; and the map stops being empty
\* only in an initializeVitals or a startSimulation step.
C29_ClearedStaysEmpty ==
    [][/\ (isSimulating /\ patientVitals # EmptyMap
              /\ patientVitals' = EmptyMap) =>
             /\ isSimulating'
             /\ simulationInterval' = simulationInterval
             /\ intervals' = intervals
       /\ (patientVitals = EmptyMap /\ running # NoTick) =>
             /\ patientVitals' = EmptyMap
             /\ isSimulating' = isSimulating
             /\ simulationInterval' = simulationInterval
       /\ (patientVitals = EmptyMap /\ patientVitals' # EmptyMap) =>
             /\ running = NoTick
             /\ \/ nextHandle' # nextHandle
                \/ \E p \in Patients, t \in Trends, d \in StoreHistoryDraws :
                      InitializeVitals(p, t, d)
      ]_vars

\* C29 happens: the map was cleared under a live driver over two patients,
\* which is now in the middle of a later tick: its first pass found no
\* bundle and created none.
C29_Witness ==
    /\ isSimulating
    /\ patientVitals = EmptyMap
    /\ running # NoTick
    /\ running[1] = simulationInterval
    /\ running[2] = 2
    /\ now > SIMULATION_INTERVAL

====
